---------------------------- MODULE Spec2Model ----------------------------
(* Model of the DaShan robot command core:                                 *)
(*   protocol.c / protocol.h  - frame parser, dispatch table, tx queue     *)
(*   state_machine.c / .h     - behaviour controller                       *)
(*   main.c                   - tick loop                                  *)
(* The receive frame is modelled as the memory image of ProtocolFrame      *)
(* (head at 0, cmd at 1, len at 2..3 little-endian, data at 4..1027, crc   *)
(* at 1028, one padding byte at 1029), because the code computes the CRC   *)
(* over that image and indexes data[] with an unchecked cursor.            *)
EXTENDS Integers, Sequences, FiniteSets, TLC

VARIABLES
    rx_frame,       \* handler->rx_frame, as its memory image [0..FRAME_SIZE-1 -> byte]
    rx_index,       \* handler->rx_index
    rx_receiving,   \* handler->rx_receiving
    callbacks,      \* handler->callbacks[256]; NULL is 0
    tx_queue,       \* handler->tx_queue: the frames queued, oldest first
    uart_tx,        \* the buffers handed to uart_write_bytes, oldest first
    sm,             \* state_machine (state_machine.c 9)
    display,        \* the last id given to led_matrix_set_expression
    now,            \* esp_timer_get_time() / 1000 as a uint32_t: <<high half, low half>>
    log,            \* history: handler calls, diagnostics, frame starts, registrations
    fed,            \* history: the data of every protocol_process_data call, in order
    requests,       \* history: the (cmd, data) of every protocol_send_response call,
                    \* what the caller was given back and whether the frame was queued
    call            \* history: the last transmit or behaviour-controller call and
                    \* the state it started from

rxVars == <<rx_frame, rx_index, rx_receiving>>
txVars == <<tx_queue, uart_tx>>
smVars == <<sm, display, now>>
vars == <<rx_frame, rx_index, rx_receiving, callbacks, tx_queue, uart_tx,
          sm, display, now, log, fed, requests, call>>

-----------------------------------------------------------------------------
(* Program constants *)

FRAME_HEAD == 170
MAX_DATA_LEN == 1024
QUEUE_LENGTH == 10
NULL == 0
CMD_HEARTBEAT == 1
CMD_SET_STATE == 7
CMD_GET_STATUS == 8
CMD_SENSOR_DATA == 9
READ_WAIT_MS == 100     \* uart_read_bytes(..., pdMS_TO_TICKS(100))
TICK_DELAY_MS == 10     \* vTaskDelay(pdMS_TO_TICKS(10))
SEND_WAIT_MS == 100         \* pdMS_TO_TICKS(100) of xQueueSend
WAKE_TIMEOUT_MS == 2000     \* the threshold of state_machine_update
STATE_IDLE == 0
STATE_SLEEP == 1
STATE_WAKE == 2
STATE_LISTEN == 3
STATE_THINK == 4
STATE_TALK == 5

Byte == 0..255
OFF_CRC == 4 + MAX_DATA_LEN            \* offsetof(ProtocolFrame, crc)
FRAME_SIZE == 4 + MAX_DATA_LEN + 2     \* sizeof(ProtocolFrame), uint16_t alignment

-----------------------------------------------------------------------------
(* Bounds of the model *)

MaxFed == 6          \* bytes fed to the parser in Spec
MaxTail == 3         \* single bytes fed after a long chunk in SpecLong
MaxChunks == 2       \* protocol_process_data calls in SpecFrames and SpecDispatch
MaxRegs == 2         \* protocol_register_callback calls in SpecDispatch
MaxGarbage == 2      \* length of a garbage chunk in SpecFrames
MaxSends == 12       \* protocol_send_response calls in SpecQueue
MaxStatus == 2       \* state_machine_transition calls that change the state in SpecStatus
MaxCommands == 1     \* state_machine_transition calls that change the state in SpecController
MaxWakes == 1        \* state_machine_transition(STATE_WAKE) calls in SpecTimer
MaxTicks == 20       \* iterations of the main loop in SpecTick
MaxEchoes == 1       \* iterations of the main loop that read input in SpecTick
MaxWrapMs == 3000    \* the clock advances in SpecWrap while fewer than this many ms passed in WAKE
MaxLiveTicks == 21   \* iterations of the main loop in SpecLive
MaxLiveCommands == 2 \* state_machine_transition calls that change the state in SpecLive
MaxClock == 1999     \* the clock advances from a count below this many ms

-----------------------------------------------------------------------------
(* 8-bit arithmetic *)

Bit(x, i) == (x \div (2 ^ i)) % 2

Xor8(a, b) ==
    LET d(i) == IF Bit(a, i) = Bit(b, i) THEN 0 ELSE 2 ^ i
    IN  d(0) + d(1) + d(2) + d(3) + d(4) + d(5) + d(6) + d(7)

\* CrcShift without the polynomial
CrcShift_NoPoly(crc) == (crc * 2) % 256

\* crc = (crc & 0x80) ? (crc << 1) ^ 0x07 : crc << 1;   stored back into a uint8_t
CrcShift(crc) ==
    IF Bit(crc, 7) = 1 THEN Xor8((crc * 2) % 256, 7) ELSE (crc * 2) % 256

\* for (int j = 0; j < 8; j++) crc = ...
CrcShift8(crc) ==
    CrcShift(CrcShift(CrcShift(CrcShift(CrcShift(CrcShift(CrcShift(CrcShift(crc))))))))

\* The inner loop of calc_crc8 and the ^ of two bytes, tabulated once
CrcTable == [x \in Byte |-> CrcShift8(x)]
XorTable == [a \in Byte |-> [b \in Byte |-> Xor8(a, b)]]

\* crc ^= data[i]; followed by the eight shifts
CrcByte(crc, byte) == CrcTable[XorTable[crc][byte]]

\* The loop of calc_crc8 over data[lo..hi-1], starting from crc. The loop is
\* split in halves, the first half evaluated before the second, only to keep
\* the evaluation depth logarithmic.
RECURSIVE CrcRange(_, _, _, _)
CrcRange(data, crc, lo, hi) ==
    IF lo >= hi THEN crc
    ELSE IF hi = lo + 1 THEN CrcByte(crc, data[lo])
    ELSE LET mid == (lo + hi) \div 2
             first == CrcRange(data, crc, lo, mid)
         IN  IF first \in Byte THEN CrcRange(data, first, mid, hi) ELSE first

\* uint8_t calc_crc8(const uint8_t *data, uint16_t len); data is indexed from 0
calc_crc8(data, len) == CrcRange(data, 0, 0, len % 65536)

\* a | b on 8-bit values
Or8(a, b) ==
    LET d(i) == IF Bit(a, i) = 1 \/ Bit(b, i) = 1 THEN 2 ^ i ELSE 0
    IN  d(0) + d(1) + d(2) + d(3) + d(4) + d(5) + d(6) + d(7)

-----------------------------------------------------------------------------
(* ProtocolFrame *)

\* rx_frame.len, read from the image (little-endian uint16_t at offset 2)
FrameLen(frame) == frame[2] + 256 * frame[3]

\* rx_frame.data[0..len-1] as the handler reads it through (data, len)
FrameData(frame, len) == [i \in 1..len |-> frame[4 + (i - 1)]]

\* The first 4 + len bytes of the image of a ProtocolFrame built on the stack
FrameImage(f) ==
    [i \in 0..(3 + f.len) |->
        IF i = 0 THEN f.head
        ELSE IF i = 1 THEN f.cmd
        ELSE IF i = 2 THEN f.len % 256
        ELSE IF i = 3 THEN f.len \div 256
        ELSE f.data[i - 3]]

-----------------------------------------------------------------------------
(* Entries of the history variable log *)

Event(type, cb, cmd, len, data, at) ==
    [type |-> type, cb |-> cb, cmd |-> cmd, len |-> len, data |-> data, at |-> at]

\* handler->callbacks[cmd](rx_frame.data, rx_frame.len), after byte number at
CallEvent(cb, cmd, len, data, at) == Event("call", cb, cmd, len, data, at)
\* ESP_LOGW "No callback for CMD"
NoCallbackEvent(cmd, len, at) == Event("no_callback", NULL, cmd, len, <<>>, at)
\* ESP_LOGW "CRC mismatch"
CrcMismatchEvent(cmd, len, at) == Event("crc_mismatch", NULL, cmd, len, <<>>, at)
\* ESP_LOGW "Frame too long, resetting"
TooLongEvent(cmd, len, at) == Event("too_long", NULL, cmd, len, <<>>, at)
\* rx_receiving = true on a sync byte seen while idle (protocol.c 37..41)
SyncEvent(at) == Event("sync", NULL, 0, 0, <<>>, at)
\* protocol_register_callback(cmd, cb)
RegisterEvent(cmd, cb, at) == Event("register", cb, cmd, 0, <<>>, at)

-----------------------------------------------------------------------------
(* protocol_process_data *)

\* The parser part of ProtocolHandler, with the events of this call and the
\* number of bytes consumed so far.
Parser(frame, index, receiving, out, n) ==
    [frame |-> frame, index |-> index, receiving |-> receiving, out |-> out, n |-> n]

\* ChecksumByte with the comparison left out: every completed frame is dispatched
ChecksumByte_NoCompare(h, cbs, byte, idx) ==
    LET frame == [h.frame EXCEPT ![OFF_CRC] = byte]
        len == FrameLen(frame)
        cmd == frame[1]
        ev == IF cbs[cmd] # NULL
              THEN CallEvent(cbs[cmd], cmd, len, FrameData(frame, len), h.n + 1)
              ELSE NoCallbackEvent(cmd, len, h.n + 1)
    IN  Parser(frame, 0, FALSE, Append(h.out, ev), h.n + 1)

\* ChecksumByte with the reset to idle done only when the checksum matches
ChecksumByte_StayOnMismatch(h, cbs, byte, idx) ==
    LET frame == [h.frame EXCEPT ![OFF_CRC] = byte]
        len == FrameLen(frame)
        cmd == frame[1]
        calc_crc == calc_crc8(frame, 4 + len)
    IN  IF calc_crc = frame[OFF_CRC]
        THEN Parser(frame, 0, FALSE,
                    Append(h.out, IF cbs[cmd] # NULL
                                  THEN CallEvent(cbs[cmd], cmd, len, FrameData(frame, len), h.n + 1)
                                  ELSE NoCallbackEvent(cmd, len, h.n + 1)),
                    h.n + 1)
        ELSE Parser(frame, idx, TRUE,
                    Append(h.out, CrcMismatchEvent(cmd, len, h.n + 1)), h.n + 1)

\* ChecksumByte with the reset to idle skipped when no handler is bound
ChecksumByte_StayWhenUnbound(h, cbs, byte, idx) ==
    LET frame == [h.frame EXCEPT ![OFF_CRC] = byte]
        len == FrameLen(frame)
        cmd == frame[1]
        calc_crc == calc_crc8(frame, 4 + len)
    IN  IF calc_crc = frame[OFF_CRC] /\ cbs[cmd] = NULL
        THEN Parser(frame, idx, TRUE,
                    Append(h.out, NoCallbackEvent(cmd, len, h.n + 1)), h.n + 1)
        ELSE Parser(frame, 0, FALSE,
                    Append(h.out, IF calc_crc = frame[OFF_CRC]
                                  THEN CallEvent(cbs[cmd], cmd, len, FrameData(frame, len), h.n + 1)
                                  ELSE CrcMismatchEvent(cmd, len, h.n + 1)),
                    h.n + 1)

\* case: rx_index == 4 + rx_frame.len (protocol.c 60..84)
ChecksumByte(h, cbs, byte, idx) ==
    LET frame == [h.frame EXCEPT ![OFF_CRC] = byte]
        len == FrameLen(frame)
        cmd == frame[1]
        calc_crc == calc_crc8(frame, 4 + len)
        ev == IF calc_crc = frame[OFF_CRC]
              THEN IF cbs[cmd] # NULL
                   THEN CallEvent(cbs[cmd], cmd, len, FrameData(frame, len), h.n + 1)
                   ELSE NoCallbackEvent(cmd, len, h.n + 1)
              ELSE CrcMismatchEvent(cmd, len, h.n + 1)
    IN  Parser(frame, 0, FALSE, Append(h.out, ev), h.n + 1)

\* switch (handler->rx_index) (protocol.c 47..86), idx is the incremented cursor
SwitchIndex(h, cbs, byte, idx) ==
    CASE idx = 1 -> Parser([h.frame EXCEPT ![1] = byte], idx, TRUE, h.out, h.n + 1)
      [] idx = 2 -> Parser([h.frame EXCEPT ![2] = byte, ![3] = 0], idx, TRUE, h.out, h.n + 1)
      [] idx = 3 -> Parser([h.frame EXCEPT ![3] = Or8(h.frame[3], byte)], idx, TRUE, h.out, h.n + 1)
      [] OTHER ->
            IF idx < 4 + FrameLen(h.frame)
            THEN \* rx_frame.data[rx_index - 4] = byte, no bound check on the offset
                 Parser([h.frame EXCEPT ![idx] = byte], idx, TRUE, h.out, h.n + 1)
            ELSE IF idx = 4 + FrameLen(h.frame)
            THEN ChecksumByte(h, cbs, byte, idx)
            ELSE Parser(h.frame, idx, TRUE, h.out, h.n + 1)

\* DefensiveReset that clears the cursor but leaves rx_receiving set
DefensiveReset_KeepReceiving(h) ==
    IF h.index >= 4 + MAX_DATA_LEN + 1
    THEN Parser(h.frame, 0, TRUE,
                Append(h.out, TooLongEvent(h.frame[1], FrameLen(h.frame), h.n)), h.n)
    ELSE h

\* DefensiveReset left out
DefensiveReset_Never(h) == h

\* if (rx_index >= 4 + MAX_DATA_LEN + 1) reset (protocol.c 88..92)
DefensiveReset(h) ==
    IF h.index >= 4 + MAX_DATA_LEN + 1
    THEN Parser(h.frame, 0, FALSE,
                Append(h.out, TooLongEvent(h.frame[1], FrameLen(h.frame), h.n)), h.n)
    ELSE h

\* ProcessByte that starts a frame on any byte seen while idle
ProcessByte_AnyByteStarts(h, cbs, byte) ==
    IF ~h.receiving
    THEN Parser([h.frame EXCEPT ![0] = byte], 0, TRUE,
                Append(h.out, SyncEvent(h.n + 1)), h.n + 1)
    ELSE DefensiveReset(SwitchIndex(h, cbs, byte, (h.index + 1) % 65536))

\* One iteration of the for loop of protocol_process_data (protocol.c 34..92)
ProcessByte(h, cbs, byte) ==
    IF ~h.receiving
    THEN IF byte = FRAME_HEAD
         THEN Parser([h.frame EXCEPT ![0] = byte], 0, TRUE,
                     Append(h.out, SyncEvent(h.n + 1)), h.n + 1)
         ELSE Parser(h.frame, h.index, h.receiving, h.out, h.n + 1)
    ELSE DefensiveReset(SwitchIndex(h, cbs, byte, (h.index + 1) % 65536))

\* The for loop over data[lo..hi-1] (data is a sequence, so data[i + 1] is the
\* C data[i]); split in halves, the first half evaluated before the second,
\* only to keep the evaluation depth logarithmic.
RECURSIVE ProcessRange(_, _, _, _, _)
ProcessRange(h, cbs, data, lo, hi) ==
    IF lo >= hi THEN h
    ELSE IF hi = lo + 1 THEN ProcessByte(h, cbs, data[lo + 1])
    ELSE LET mid == (lo + hi) \div 2
             first == ProcessRange(h, cbs, data, lo, mid)
         IN  IF first.n >= 0 THEN ProcessRange(first, cbs, data, mid, hi) ELSE first

\* protocol_process_data that runs the handlers after its loop, on the frame
\* buffer as the last byte left it
protocol_process_data_DeferredDispatch(h, cbs, data) ==
    LET r == ProcessRange(h, cbs, data, 0, Len(data))
        new == SubSeq(r.out, Len(h.out) + 1, Len(r.out))
        late == SelectSeq(new, LAMBDA e : e.type = "call")
    IN  [r EXCEPT !.out = h.out \o SelectSeq(new, LAMBDA e : e.type # "call")
                      \o [i \in 1..Len(late) |->
                            [late[i] EXCEPT !.data = FrameData(r.frame, late[i].len),
                                            !.at = r.n]]]

\* void protocol_process_data(handler, data, len) as a function of the parser
protocol_process_data(h, cbs, data) == ProcessRange(h, cbs, data, 0, Len(data))

-----------------------------------------------------------------------------
(* Transmit side *)

\* protocol_send_response builds the frame on the stack (protocol.c 129..134)
BuildFrame(cmd, data) ==
    LET f == [head |-> FRAME_HEAD, cmd |-> cmd, len |-> Len(data), data |-> data, crc |-> 0]
    IN  [f EXCEPT !.crc = calc_crc8(FrameImage(f), 4 + Len(data))]

\* protocol_send_frame on a queue without a capacity
protocol_send_frame_Unbounded(q, frame) == Append(q, frame)

\* xQueueSend(tx_queue, frame, 100 ms): a copy is appended unless the queue
\* is still full when the wait ends; the result is not looked at
protocol_send_frame(q, frame) ==
    IF Len(q) < QUEUE_LENGTH THEN Append(q, frame) ELSE q

\* A uint32_t count of milliseconds is the pair of its 16-bit halves <<high, low>>
Ms(n) == <<n \div 65536, n % 65536>>

\* uint32_t addition
U32Add(a, b) ==
    LET low == a[2] + b[2]
    IN  <<(a[1] + b[1] + low \div 65536) % 65536, low % 65536>>

\* uint32_t subtraction
U32Sub(a, b) ==
    LET borrow == IF a[2] < b[2] THEN 1 ELSE 0
    IN  <<(a[1] - b[1] - borrow + 65536) % 65536, (a[2] - b[2] + 65536) % 65536>>

\* uint32_t a > n, for n below 65536
U32Gt(a, n) == a[1] > 0 \/ a[2] > n

\* esp_timer_get_time() / 1000 stored in a uint32_t, d after t
ClockAdd(t, d) == U32Add(t, d)

\* how long xQueueSend keeps its caller: nothing with room; the whole wait
\* with a full queue, which only the caller's own task drains (main.c 70)
SendWait(q) == IF Len(q) < QUEUE_LENGTH THEN Ms(0) ELSE Ms(SEND_WAIT_MS)

\* what protocol_send_frame gives its caller: it is declared void and drops
\* the result of xQueueSend (protocol.c 96..99)
SendResult(q) == "void"

\* the entry of the requests history for one protocol_send_response call
Request(cmd, data, q, by) ==
    [cmd |-> cmd, data |-> data, by |-> by,
     queued |-> Len(q) < QUEUE_LENGTH, result |-> SendResult(q)]


\* Serialize with the length written high byte first
Serialize_LenBigEndian(frame) ==
    <<frame.head, frame.cmd, (frame.len \div 256) % 256, frame.len % 256>>
        \o SubSeq(frame.data, 1, frame.len) \o <<frame.crc>>

\* buffer[] as filled by protocol_send_queued for one frame (protocol.c 105..115)
Serialize(frame) ==
    <<frame.head, frame.cmd, frame.len % 256, (frame.len \div 256) % 256>>
        \o SubSeq(frame.data, 1, frame.len) \o <<frame.crc>>

RECURSIVE SerializeAll(_)
\* the while loop of protocol_send_queued: one buffer per queued frame
SerializeAll(q) ==
    IF q = <<>> THEN <<>> ELSE <<Serialize(Head(q))>> \o SerializeAll(Tail(q))

-----------------------------------------------------------------------------
(* Behaviour controller *)

\* ExpressionOf with the state number as the expression id
ExpressionOf_StateNumber(new_state, old_expression) == new_state % 256

\* the switch of state_machine_transition (state_machine.c 56..74)
ExpressionOf(new_state, old_expression) ==
    CASE new_state = STATE_SLEEP -> 0
      [] new_state = STATE_WAKE -> 1
      [] new_state = STATE_LISTEN -> 2
      [] new_state = STATE_THINK -> 3
      [] new_state = STATE_TALK -> 4
      [] OTHER -> old_expression

\* the fields state_machine_transition assigns (state_machine.c 52..74)
state_machine_transition(m, new_state, t) ==
    [m EXCEPT !.previous_state = m.current_state,
              !.current_state = new_state,
              !.state_enter_time = t,
              !.current_expression = ExpressionOf(new_state, m.current_expression)]

\* StatusData with the battery level of state_machine_init
StatusData_InitialBattery(m, new_state, u7, u8) ==
    <<new_state % 256, 100, m.current_expression,
      m.servo_h_angle % 256, m.servo_h_angle \div 256,
      m.servo_v_angle % 256, m.servo_v_angle \div 256, u7, u8>>

\* uint8_t data[9] of state_machine_transition (state_machine.c 78..83): seven
\* bytes are assigned, data[7] and data[8] keep what the stack held (u7, u8)
StatusData(m, new_state, u7, u8) ==
    <<new_state % 256, m.battery_level, m.current_expression,
      m.servo_h_angle % 256, m.servo_h_angle \div 256,
      m.servo_v_angle % 256, m.servo_v_angle \div 256, u7, u8>>

\* values an unassigned stack byte is given in the model
StackBytes == {0, 255}

\* Elapsed computed without wrap-around: zero when the count is below the entry time
Elapsed_NoWrap(m, t) ==
    IF t[1] < m.state_enter_time[1]
          \/ (t[1] = m.state_enter_time[1] /\ t[2] < m.state_enter_time[2])
    THEN Ms(0)
    ELSE U32Sub(t, m.state_enter_time)

\* uint32_t elapsed = now - state_machine.state_enter_time (state_machine.c 95)
Elapsed(m, t) == U32Sub(t, m.state_enter_time)

\* state_machine after state_machine_init (state_machine.c 15..22)
state_machine_init ==
    [current_state |-> STATE_SLEEP, previous_state |-> STATE_SLEEP,
     state_enter_time |-> Ms(0), battery_level |-> 100,
     current_expression |-> 0, servo_h_angle |-> 90, servo_v_angle |-> 90,
     running |-> FALSE]

\* state_machine_start at time t (state_machine.c 31..32)
state_machine_start(m, t) == [m EXCEPT !.running = TRUE, !.state_enter_time = t]

\* state_machine_stop (state_machine.c 38)
state_machine_stop(m) == [m EXCEPT !.running = FALSE]

\* the call history before any call
NoCall == [op |-> "none"]

\* the entry of the call history: the function, its argument, the ids it
\* gave to led_matrix_set_expression, and the state it started from
Call(op, arg, shown) ==
    [op |-> op, arg |-> arg, shown |-> shown, sm |-> sm, display |-> display,
     queue |-> tx_queue, sent |-> Len(requests), written |-> Len(uart_tx), now |-> now]

-----------------------------------------------------------------------------
(* State after protocol_init, state_machine_init and state_machine_start *)

Init ==
    /\ rx_frame = [i \in 0..(FRAME_SIZE - 1) |-> 0]
    /\ rx_index = 0
    /\ rx_receiving = FALSE
    /\ callbacks = [c \in Byte |-> NULL]
    /\ tx_queue = <<>>
    /\ uart_tx = <<>>
    /\ now = Ms(0)
    /\ sm = state_machine_start(state_machine_init, Ms(0))
    /\ display = 0
    /\ log = <<>>
    /\ fed = <<>>
    /\ requests = <<>>
    /\ call = NoCall

\* State after protocol_init and state_machine_init, before state_machine_start
Boot ==
    /\ rx_frame = [i \in 0..(FRAME_SIZE - 1) |-> 0]
    /\ rx_index = 0
    /\ rx_receiving = FALSE
    /\ callbacks = [c \in Byte |-> NULL]
    /\ tx_queue = <<>>
    /\ uart_tx = <<>>
    /\ now = Ms(0)
    /\ sm = state_machine_init
    /\ display = 0
    /\ log = <<>>
    /\ fed = <<>>
    /\ requests = <<>>
    /\ call = NoCall

RECURSIVE Flat(_)
\* the bytes of a sequence of chunks, in order
Flat(chunks) == IF chunks = <<>> THEN <<>> ELSE Head(chunks) \o Flat(Tail(chunks))

RECURSIVE FlatLen(_)
FlatLen(chunks) == IF chunks = <<>> THEN 0 ELSE Len(Head(chunks)) + FlatLen(Tail(chunks))

-----------------------------------------------------------------------------
(* Operations *)

\* RegisterCallback that keeps an existing binding
RegisterCallback_KeepFirst(cmd, cb) ==
    /\ callbacks' = IF callbacks[cmd] = NULL THEN [callbacks EXCEPT ![cmd] = cb] ELSE callbacks
    /\ log' = Append(log, RegisterEvent(cmd, cb, FlatLen(fed)))
    /\ UNCHANGED <<rxVars, txVars, smVars, fed, requests, call>>

\* protocol_register_callback(handler, cmd, callback)
RegisterCallback(cmd, cb) ==
    /\ callbacks' = [callbacks EXCEPT ![cmd] = cb]
    /\ log' = Append(log, RegisterEvent(cmd, cb, FlatLen(fed)))
    /\ UNCHANGED <<rxVars, txVars, smVars, fed, requests, call>>

\* ProcessData with the cursor and the receiving flag local to each call
ProcessData_CursorPerCall(data) ==
    LET h == protocol_process_data(
                 Parser(rx_frame, 0, FALSE, <<>>, FlatLen(fed)), callbacks, data)
    IN  /\ rx_frame' = h.frame
        /\ rx_index' = h.index
        /\ rx_receiving' = h.receiving
        /\ log' = log \o h.out
        /\ fed' = Append(fed, data)
        /\ UNCHANGED <<callbacks, txVars, smVars, requests, call>>

\* protocol_process_data(handler, data, len)
ProcessData(data) ==
    LET h == protocol_process_data(
                 Parser(rx_frame, rx_index, rx_receiving, <<>>, FlatLen(fed)), callbacks, data)
    IN  /\ rx_frame' = h.frame
        /\ rx_index' = h.index
        /\ rx_receiving' = h.receiving
        /\ log' = log \o h.out
        /\ fed' = Append(fed, data)
        /\ UNCHANGED <<callbacks, txVars, smVars, requests, call>>

\* protocol_send_response(handler, cmd, data, len), len <= MAX_DATA_LEN as
\* the memcpy into frame.data requires
SendResponse(cmd, data) ==
    /\ Len(data) <= MAX_DATA_LEN
    /\ tx_queue' = protocol_send_frame(tx_queue, BuildFrame(cmd, data))
    /\ now' = ClockAdd(now, SendWait(tx_queue))
    /\ requests' = Append(requests, Request(cmd, data, tx_queue, "send"))
    /\ call' = Call("send", cmd, <<>>)
    /\ UNCHANGED <<rxVars, callbacks, uart_tx, sm, display, log, fed>>

\* a uint16_t in memory, low byte first
Le16(v) == <<v % 256, (v \div 256) % 256>>

\* a uint32_t (as its halves) in memory, low byte first
Le32(v) == Le16(v[2]) \o Le16(v[1])

\* uint32_t uptime = esp_timer_get_time() / 1000000 at millisecond count t,
\* while the millisecond count has not wrapped (65536 = 65 * 1000 + 536)
UptimeSeconds(t) == Ms(t[1] * 65 + (t[1] * 536 + t[2]) \div 1000)

\* protocol_send_heartbeat(handler), free_heap being esp_get_free_heap_size()
SendHeartbeat(free_heap) ==
    SendResponse(CMD_HEARTBEAT, Le32(UptimeSeconds(now)) \o Le32(free_heap))

\* protocol_send_status(handler, state, battery, expression, servo_h, servo_v):
\* data[7] and data[8] of uint8_t data[9] are not assigned
SendStatus(state, battery, expression, servo_h, servo_v) ==
    \E u7 \in StackBytes, u8 \in StackBytes :
        SendResponse(CMD_GET_STATUS,
                     <<state % 256, battery, expression>> \o Le16(servo_h) \o Le16(servo_v)
                         \o <<u7, u8>>)

\* protocol_send_sensor_data(handler, distance, proximity, light)
SendSensorData(distance, proximity, light) ==
    SendResponse(CMD_SENSOR_DATA, Le16(distance) \o <<proximity, light>>)

\* SendQueued that takes the newest frame first
SendQueued_NewestFirst ==
    /\ uart_tx' = uart_tx \o SerializeAll([i \in 1..Len(tx_queue) |-> tx_queue[Len(tx_queue) + 1 - i]])
    /\ tx_queue' = <<>>
    /\ call' = Call("drain", 0, <<>>)
    /\ UNCHANGED <<rxVars, callbacks, smVars, log, fed, requests>>

\* protocol_send_queued(handler): one uart_write_bytes per frame until empty
SendQueued ==
    /\ uart_tx' = uart_tx \o SerializeAll(tx_queue)
    /\ tx_queue' = <<>>
    /\ call' = Call("drain", 0, <<>>)
    /\ UNCHANGED <<rxVars, callbacks, smVars, log, fed, requests>>

\* a controller call that returns without doing anything
Return(op, arg) ==
    /\ call' = Call(op, arg, <<>>)
    /\ UNCHANGED <<rxVars, callbacks, txVars, smVars, log, fed, requests>>

\* state_machine_transition after its early return (state_machine.c 48..85)
TransitionEffect(new_state, op, arg) ==
    \E u7 \in StackBytes, u8 \in StackBytes :
       LET m == state_machine_transition(sm, new_state, now)
           data == StatusData(m, new_state, u7, u8)
       IN  /\ sm' = m
           /\ display' = m.current_expression
           /\ tx_queue' = protocol_send_frame(tx_queue, BuildFrame(CMD_SET_STATE, data))
           /\ now' = ClockAdd(now, SendWait(tx_queue))
           /\ requests' = Append(requests, Request(CMD_SET_STATE, data, tx_queue, op))
           /\ call' = Call(op, arg, <<m.current_expression>>)
           /\ UNCHANGED <<rxVars, callbacks, uart_tx, log, fed>>

\* Transition without the early return
Transition_NoEarlyReturn(new_state) == TransitionEffect(new_state, "transition", new_state)

\* state_machine_transition(new_state) (state_machine.c 42..86)
Transition(new_state) ==
    IF new_state = sm.current_state
    THEN Return("transition", new_state)
    ELSE TransitionEffect(new_state, "transition", new_state)

\* Update that leaves WAKE as soon as the threshold is reached
Update_AtThreshold ==
    IF ~sm.running
    THEN Return("update", 0)
    ELSE IF sm.current_state = STATE_WAKE /\ U32Gt(Elapsed(sm, now), WAKE_TIMEOUT_MS - 1)
         THEN TransitionEffect(STATE_LISTEN, "update", 0)
         ELSE Return("update", 0)

\* Update with the rule of WAKE applied to TALK as well
Update_TalkTimesOut ==
    IF ~sm.running
    THEN Return("update", 0)
    ELSE IF sm.current_state \in {STATE_WAKE, STATE_TALK} /\ U32Gt(Elapsed(sm, now), WAKE_TIMEOUT_MS)
         THEN TransitionEffect(STATE_LISTEN, "update", 0)
         ELSE Return("update", 0)

\* Update that does not look at running
Update_IgnoreRunning ==
    IF sm.current_state = STATE_WAKE /\ U32Gt(Elapsed(sm, now), WAKE_TIMEOUT_MS)
    THEN TransitionEffect(STATE_LISTEN, "update", 0)
    ELSE Return("update", 0)

\* state_machine_update() (state_machine.c 88..119)
Update ==
    IF ~sm.running
    THEN Return("update", 0)
    ELSE IF sm.current_state = STATE_WAKE /\ U32Gt(Elapsed(sm, now), WAKE_TIMEOUT_MS)
         THEN TransitionEffect(STATE_LISTEN, "update", 0)
         ELSE Return("update", 0)

\* state_machine_start()
Start ==
    /\ sm' = state_machine_start(sm, now)
    /\ call' = Call("start", 0, <<>>)
    /\ UNCHANGED <<rxVars, callbacks, txVars, display, now, log, fed, requests>>

\* state_machine_stop()
Stop ==
    /\ sm' = state_machine_stop(sm)
    /\ call' = Call("stop", 0, <<>>)
    /\ UNCHANGED <<rxVars, callbacks, txVars, display, now, log, fed, requests>>

\* state_machine_set_battery_level(level) (state_machine.c 139..143)
SetBattery(level) ==
    /\ sm' = [sm EXCEPT !.battery_level = level]
    /\ call' = Call("set_battery", level, <<>>)
    /\ UNCHANGED <<rxVars, callbacks, txVars, display, now, log, fed, requests>>

\* what one iteration of the main loop works on
Loop(queue, t, reqs, uart, m, shown) ==
    [queue |-> queue, now |-> t, requests |-> reqs, uart |-> uart, sm |-> m, shown |-> shown]

\* protocol_send_response called from within the loop
LoopSend(st, cmd, data, by) ==
    [st EXCEPT !.queue = protocol_send_frame(st.queue, BuildFrame(cmd, data)),
               !.now = ClockAdd(st.now, SendWait(st.queue)),
               !.requests = Append(st.requests, Request(cmd, data, st.queue, by))]

\* the callbacks that answer: such a handler sends one response, with the
\* command and payload it was called for
Responders == {1}

RECURSIVE LoopHandlers(_, _)
\* the handler calls made inside protocol_process_data, in their order
LoopHandlers(calls, st) ==
    IF calls = <<>>
    THEN st
    ELSE LoopHandlers(Tail(calls),
                      IF Head(calls).cb \in Responders
                      THEN LoopSend(st, Head(calls).cmd, Head(calls).data, "handler")
                      ELSE st)

\* protocol_send_queued within the loop
LoopDrain(st) == [st EXCEPT !.uart = st.uart \o SerializeAll(st.queue), !.queue = <<>>]

\* LoopUpdate that restarts the timer of WAKE while the time-out has not come
LoopUpdate_RestartsTimer(st, u7, u8) ==
    IF /\ st.sm.running
       /\ st.sm.current_state = STATE_WAKE
       /\ U32Gt(Elapsed(st.sm, st.now), WAKE_TIMEOUT_MS)
    THEN LET m == state_machine_transition(st.sm, STATE_LISTEN, st.now)
         IN  [LoopSend(st, CMD_SET_STATE, StatusData(m, STATE_LISTEN, u7, u8), "update")
                 EXCEPT !.sm = m, !.shown = <<m.current_expression>>]
    ELSE IF st.sm.current_state = STATE_WAKE
         THEN [st EXCEPT !.sm.state_enter_time = st.now]
         ELSE st

\* state_machine_update within the loop
LoopUpdate(st, u7, u8) ==
    IF /\ st.sm.running
       /\ st.sm.current_state = STATE_WAKE
       /\ U32Gt(Elapsed(st.sm, st.now), WAKE_TIMEOUT_MS)
    THEN LET m == state_machine_transition(st.sm, STATE_LISTEN, st.now)
         IN  [LoopSend(st, CMD_SET_STATE, StatusData(m, STATE_LISTEN, u7, u8), "update")
                 EXCEPT !.sm = m, !.shown = <<m.current_expression>>]
    ELSE st

\* LoopSteps with the time-driven rule evaluated before the drain
LoopSteps_UpdateBeforeDrain(calls, st, u7, u8) ==
    LoopDrain(LoopUpdate(LoopHandlers(calls, st), u7, u8))

\* the order of one iteration after the read (main.c 66..72)
LoopSteps(calls, st, u7, u8) ==
    LoopUpdate(LoopDrain(LoopHandlers(calls, st)), u7, u8)

\* one iteration of while (1) in app_main (main.c 63..79); data is what
\* uart_read_bytes returned after its wait, <<>> for len = 0
Tick(data) ==
    \E u7 \in StackBytes, u8 \in StackBytes :
        LET h == IF data = <<>>
                 THEN Parser(rx_frame, rx_index, rx_receiving, <<>>, FlatLen(fed))
                 ELSE protocol_process_data(
                          Parser(rx_frame, rx_index, rx_receiving, <<>>, FlatLen(fed)),
                          callbacks, data)
            st == LoopSteps(SelectSeq(h.out, LAMBDA e : e.type = "call"),
                            Loop(tx_queue, ClockAdd(now, Ms(READ_WAIT_MS)), requests,
                                 uart_tx, sm, <<>>),
                            u7, u8)
        IN  /\ rx_frame' = h.frame
            /\ rx_index' = h.index
            /\ rx_receiving' = h.receiving
            /\ log' = log \o h.out
            /\ fed' = IF data = <<>> THEN fed ELSE Append(fed, data)
            /\ tx_queue' = st.queue
            /\ uart_tx' = st.uart
            /\ requests' = st.requests
            /\ sm' = st.sm
            /\ display' = IF st.shown = <<>> THEN display ELSE st.shown[Len(st.shown)]
            /\ now' = ClockAdd(st.now, Ms(TICK_DELAY_MS))
            /\ call' = Call("tick", Len(data), st.shown)
            /\ UNCHANGED callbacks

\* d milliseconds pass with no call in progress
AdvanceClock(d) ==
    /\ now' = ClockAdd(now, d)
    /\ call' = Call("advance", d, <<>>)
    /\ UNCHANGED <<rxVars, callbacks, txVars, sm, display, log, fed, requests>>

-----------------------------------------------------------------------------
(* Spec: the receive path, fed one byte per call *)

\* The byte that completes the frame in progress with a matching checksum, if
\* the next byte is its checksum byte
MatchingBytes ==
    LET n == 4 + FrameLen(rx_frame)
        crc == CrcRange(rx_frame, 0, 0, IF n <= OFF_CRC THEN n ELSE OFF_CRC)
    IN  IF rx_receiving /\ rx_index >= 3 /\ rx_index + 1 = n
        THEN IF n <= OFF_CRC
             THEN {crc}
             ELSE IF crc \in Byte THEN {b \in Byte : CrcByte(crc, b) = b} ELSE {}
        ELSE {}

InputBytes == {0, 1, FRAME_HEAD}
RegCmds == {1}
Callbacks == {1, 2}

NumRegs == Len(SelectSeq(log, LAMBDA e : e.type = "register"))

\* the bindings made before the first byte arrives, one per command
Startup ==
    /\ fed = <<>>
    /\ \E cmd \in RegCmds :
         /\ callbacks[cmd] = NULL
         /\ RegisterCallback(cmd, 1)

\* a call with one byte
FeedByte ==
    /\ FlatLen(fed) < MaxFed
    /\ \E b \in InputBytes \cup MatchingBytes : ProcessData(<<b>>)

\* a call with two bytes
FeedPair ==
    /\ FlatLen(fed) + 1 < MaxFed
    /\ \E b1 \in InputBytes \cup MatchingBytes, b2 \in InputBytes : ProcessData(<<b1, b2>>)

Next == Startup \/ FeedByte \/ FeedPair

Spec == Init /\ [][Next]_vars

-----------------------------------------------------------------------------
(* SpecLong: frames at and beyond the payload limit *)

Fill(b, n) == [i \in 1..n |-> b]
Ramp(n) == [i \in 1..n |-> (7 * i) % 256]

LongCmds == {1, FRAME_HEAD, 255}
LongLens == {0, 1, 2, MAX_DATA_LEN - 1, MAX_DATA_LEN}
LongPayloads ==
    {Fill(FRAME_HEAD, n) : n \in LongLens} \cup {Fill(0, n) : n \in LongLens}
        \cup {Ramp(n) : n \in LongLens}

\* head, command and the two length bytes of an inbound frame claiming len bytes
Header(cmd, len) == <<FRAME_HEAD, cmd, len % 256, len \div 256>>

\* a header followed by MAX_DATA_LEN payload bytes
ClaimedLens == {MAX_DATA_LEN, MAX_DATA_LEN + 1, MAX_DATA_LEN + 2, 65535}
LongBodies ==
    {Fill(FRAME_HEAD, MAX_DATA_LEN), <<1>> \o Fill(0, MAX_DATA_LEN - 1)}
LongChunks ==
    {Header(1, len) \o body : len \in ClaimedLens, body \in LongBodies}

LongStartup ==
    /\ requests = <<>>
    /\ Startup

LongSend ==
    /\ fed = <<>> /\ requests = <<>>
    /\ \E cmd \in LongCmds, data \in LongPayloads : SendResponse(cmd, data)

LongDrain ==
    /\ tx_queue # <<>>
    /\ SendQueued

\* what was written to the UART is fed to the parser
Loopback ==
    /\ fed = <<>> /\ uart_tx # <<>>
    /\ ProcessData(uart_tx[1])

LongFeed ==
    /\ fed = <<>> /\ requests = <<>>
    /\ \E data \in LongChunks : ProcessData(data)

LongTail ==
    /\ fed # <<>> /\ requests = <<>>
    /\ Len(fed) <= MaxTail
    /\ \E b \in InputBytes \cup MatchingBytes : ProcessData(<<b>>)

NextLong == LongStartup \/ LongSend \/ LongDrain \/ Loopback \/ LongFeed \/ LongTail

SpecLong == Init /\ [][NextLong]_vars

-----------------------------------------------------------------------------
(* SpecFrames: whole frames, corrupted frames and garbage, one chunk per call *)

FrameCmds == {1, 2}
FramePayloads == {<<>>, <<FRAME_HEAD>>, <<1, FRAME_HEAD>>}

\* the bytes on the wire of the frame protocol_send_response builds
WireFrame(cmd, data) == Serialize(BuildFrame(cmd, data))
Frames == {WireFrame(cmd, data) : cmd \in FrameCmds, data \in FramePayloads}

\* bytes with bit k of byte number p inverted
Flip(bytes, p, k) == [bytes EXCEPT ![p] = Xor8(bytes[p], 2 ^ k)]
Flipped == UNION {{Flip(f, p, k) : p \in 1..Len(f), k \in 0..7} : f \in Frames}

GarbageBytes == {0, 1, FRAME_HEAD}
Garbage == UNION {[1..n -> GarbageBytes] : n \in 1..MaxGarbage}

FrameStartup == Startup

FirstChunk ==
    /\ fed = <<>>
    /\ \E data \in Frames \cup Flipped \cup Garbage : ProcessData(data)

NextFrame ==
    /\ fed # <<>>
    /\ Len(fed) < MaxChunks
    /\ \E data \in Frames : ProcessData(data)

NextFrames == FrameStartup \/ FirstChunk \/ NextFrame

SpecFrames == Init /\ [][NextFrames]_vars

-----------------------------------------------------------------------------
(* SpecDispatch: registrations at any time, whole valid frames, a queue in use *)

DispatchFrames == {WireFrame(cmd, <<1, FRAME_HEAD>>) : cmd \in FrameCmds}

\* one behaviour-controller transition before the traffic starts
DispatchTransition ==
    /\ log = <<>> /\ fed = <<>> /\ requests = <<>>
    /\ Transition(STATE_TALK)

DispatchRegister ==
    /\ NumRegs < MaxRegs
    /\ \E cmd \in FrameCmds, cb \in Callbacks : RegisterCallback(cmd, cb)

DispatchFeed ==
    /\ Len(fed) < MaxChunks
    /\ \E data \in DispatchFrames : ProcessData(data)

NextDispatch == DispatchTransition \/ DispatchRegister \/ DispatchFeed

SpecDispatch == Init /\ [][NextDispatch]_vars

-----------------------------------------------------------------------------
(* SpecStream: calls that hold one or two whole frames *)

StreamFrames ==
    {WireFrame(1, <<1>>), WireFrame(1, <<FRAME_HEAD>>), WireFrame(2, <<1, FRAME_HEAD>>)}
StreamChunks == StreamFrames \cup {f \o g : f \in StreamFrames, g \in StreamFrames}

StreamStartup == Startup

StreamFeed ==
    /\ Len(fed) < MaxChunks
    /\ \E data \in StreamChunks : ProcessData(data)

NextStream == StreamStartup \/ StreamFeed

SpecStream == Init /\ [][NextStream]_vars

-----------------------------------------------------------------------------
(* SpecQueue: the outbound queue filled past its capacity and drained *)

\* the k-th request carries its number as payload
QueueSend ==
    /\ Len(requests) < MaxSends
    /\ SendResponse(CMD_GET_STATUS, <<Len(requests) + 1>>)

QueueDrain ==
    /\ tx_queue # <<>>
    /\ SendQueued

NextQueue == QueueSend \/ QueueDrain

SpecQueue == Init /\ [][NextQueue]_vars

-----------------------------------------------------------------------------
(* SpecController: transition requests and ticks while running *)

\* the states asked for: the enumeration and two values outside it
TargetStates == STATE_IDLE..STATE_TALK \cup {6, 255}
ClockSteps == {Ms(WAKE_TIMEOUT_MS - 1), Ms(WAKE_TIMEOUT_MS), Ms(WAKE_TIMEOUT_MS + 1)}

\* the state_machine_transition calls so far that changed the state
NumCommands == Len(SelectSeq(requests, LAMBDA r : r.cmd = CMD_SET_STATE /\ r.by = "transition"))

ControllerTransition ==
    \E new_state \in TargetStates :
        /\ new_state # sm.current_state => NumCommands < MaxCommands
        /\ Transition(new_state)

ControllerUpdate == Update

ControllerClock ==
    /\ now[1] = 0 /\ now[2] < MaxClock
    /\ \E d \in ClockSteps : AdvanceClock(d)

NextController == ControllerTransition \/ ControllerUpdate \/ ControllerClock

SpecController == Init /\ [][NextController]_vars

-----------------------------------------------------------------------------
(* SpecTimer: the WAKE timer from boot, started, stopped, across the wrap *)

\* WAKE_TIMEOUT_MS before the uint32_t millisecond count wraps
NearWrap == <<65535, 65536 - WAKE_TIMEOUT_MS>>

TimerStart == Start

TimerStop == Stop

TimerWake ==
    /\ NumCommands < MaxWakes
    /\ sm.current_state # STATE_WAKE
    /\ Transition(STATE_WAKE)

TimerUpdate == Update

TimerClock ==
    /\ now = NearWrap \/ (now[1] = 0 /\ now[2] < MaxClock)
    /\ \E d \in ClockSteps : AdvanceClock(d)

\* the controller is first used when the millisecond count is about to wrap
TimerUptime ==
    /\ call = NoCall
    /\ AdvanceClock(NearWrap)

NextTimer ==
    TimerStart \/ TimerStop \/ TimerWake \/ TimerUpdate \/ TimerClock \/ TimerUptime

SpecTimer == Boot /\ [][NextTimer]_vars

-----------------------------------------------------------------------------
(* SpecStatus: transitions between all states, with the queue empty or full *)

\* frames queued by other producers before the controller is used, up to a
\* full queue
Flooding == call.op = "send" /\ Len(tx_queue) < QUEUE_LENGTH

StatusFlood ==
    /\ call.op \in {"none", "send"}
    /\ Len(tx_queue) < QUEUE_LENGTH
    /\ SendResponse(CMD_GET_STATUS, <<>>)

StatusTransition ==
    /\ ~Flooding
    /\ \E new_state \in TargetStates :
         /\ new_state # sm.current_state => NumCommands < MaxStatus
         /\ Transition(new_state)

NextStatus == StatusFlood \/ StatusTransition

SpecStatus == Init /\ [][NextStatus]_vars

-----------------------------------------------------------------------------
(* SpecBattery: battery updates between transitions and ticks *)

\* the uint8_t arguments given to state_machine_set_battery_level
BatteryLevels == {0, 37, 255}

BatterySet ==
    /\ call.op # "set_battery"
    /\ \E level \in BatteryLevels : SetBattery(level)

BatteryTransition ==
    /\ NumCommands < MaxCommands
    /\ \E new_state \in {STATE_WAKE, STATE_TALK} : Transition(new_state)

BatteryUpdate == Update

BatteryClock ==
    /\ now = Ms(0)
    /\ AdvanceClock(Ms(WAKE_TIMEOUT_MS + 1))

NextBattery == BatterySet \/ BatteryTransition \/ BatteryUpdate \/ BatteryClock

SpecBattery == Init /\ [][NextBattery]_vars

-----------------------------------------------------------------------------
(* SpecProducers: heartbeat, status, sensor data and transitions filling the queue *)

\* esp_get_free_heap_size() as seen by the heartbeat
HeapSizes == {Ms(200000)}

\* the queue is full or one frame short of it: any producer may act
AnyProducer ==
    /\ Len(requests) < MaxSends
    /\ Len(tx_queue) >= QUEUE_LENGTH - 1

\* heartbeats bring the queue to one frame short of full
ProducerFill ==
    /\ Len(requests) < MaxSends
    /\ Len(tx_queue) < QUEUE_LENGTH - 1
    /\ \E free_heap \in HeapSizes : SendHeartbeat(free_heap)

ProducerHeartbeat ==
    /\ AnyProducer
    /\ \E free_heap \in HeapSizes : SendHeartbeat(free_heap)

ProducerStatus ==
    /\ AnyProducer
    /\ SendStatus(STATE_TALK, 80, 4, 90, 300)

ProducerSensor ==
    /\ AnyProducer
    /\ SendSensorData(300, 1, 200)

ProducerTransition ==
    /\ AnyProducer
    /\ \E new_state \in {STATE_WAKE, STATE_TALK} :
         /\ new_state # sm.current_state
         /\ Transition(new_state)

ProducerDrain ==
    /\ Len(tx_queue) = QUEUE_LENGTH
    /\ SendQueued

NextProducers ==
    \/ ProducerFill \/ ProducerHeartbeat \/ ProducerStatus \/ ProducerSensor
    \/ ProducerTransition \/ ProducerDrain

SpecProducers == Init /\ [][NextProducers]_vars

-----------------------------------------------------------------------------
(* SpecWire: set-state frames arriving after app_main's startup, which
   registers no callback *)

\* the payload of a set-state frame: state, battery, expression, servo angles
WireFrames ==
    {WireFrame(CMD_SET_STATE, <<S, 100, ex>> \o Le16(90) \o Le16(90)) :
        S \in STATE_IDLE..STATE_TALK, ex \in {0, 9}}

WireFeed ==
    /\ Len(fed) < MaxChunks
    /\ \E data \in WireFrames : ProcessData(data)

NextWire == WireFeed

SpecWire == Init /\ [][NextWire]_vars

-----------------------------------------------------------------------------
(* SpecBound: a header with a corrupted length field, input up to and past the
   defensive bound, then a well-formed frame *)

\* 4 + MAX_DATA_LEN + 1, the cursor at which protocol.c 88 gives up
ATTEMPT_BOUND == 4 + MAX_DATA_LEN + 1

BoundFillers ==
    {Fill(b, n) : b \in {0, FRAME_HEAD}, n \in {ATTEMPT_BOUND - 4, ATTEMPT_BOUND - 3}}
BoundFrames == {WireFrame(1, <<FRAME_HEAD>>), WireFrame(2, <<1, FRAME_HEAD>>)}

FrameFed == \E k \in 1..Len(fed) : fed[k] \in BoundFrames

BoundHeader ==
    /\ fed = <<>>
    /\ \E len \in ClaimedLens : ProcessData(Header(1, len))

BoundFiller ==
    /\ Len(fed) = 1
    /\ \E data \in BoundFillers : ProcessData(data)

BoundTail ==
    /\ Len(fed) >= 2 /\ Len(fed) < 2 + MaxTail
    /\ ~FrameFed
    /\ \E b \in {0, FRAME_HEAD} : ProcessData(<<b>>)

BoundFrame ==
    /\ Len(fed) >= 2
    /\ ~FrameFed
    /\ \E data \in BoundFrames : ProcessData(data)

NextBound == BoundHeader \/ BoundFiller \/ BoundTail \/ BoundFrame

SpecBound == Init /\ [][NextBound]_vars

-----------------------------------------------------------------------------
(* SpecTick: the main loop, with a handler that answers and a WAKE state
   entered before the first iteration *)

TickChunks == {WireFrame(1, <<1>>), WireFrame(1, <<1>>) \o WireFrame(1, <<FRAME_HEAD>>)}

TickStartup ==
    /\ call = NoCall
    /\ Startup

TickWake ==
    /\ call = NoCall
    /\ callbacks[1] # NULL
    /\ Transition(STATE_WAKE)

\* the loop runs while the clock is below MaxTicks iterations
TickRuns ==
    /\ callbacks[1] # NULL
    /\ now[1] = 0 /\ now[2] < MaxTicks * (READ_WAIT_MS + TICK_DELAY_MS)

TickIdle ==
    /\ TickRuns
    /\ Tick(<<>>)

TickData ==
    /\ TickRuns
    /\ Len(fed) < MaxEchoes
    /\ \E data \in TickChunks : Tick(data)

NextTick == TickStartup \/ TickWake \/ TickIdle \/ TickData

SpecTick == Init /\ [][NextTick]_vars

-----------------------------------------------------------------------------
(* SpecWrap: WAKE entered shortly before the uint32_t millisecond count wraps *)

\* the millisecond count 2001, 1000 and 1 ms before it wraps
WrapStarts ==
    {<<65535, 65536 - (WAKE_TIMEOUT_MS + 1)>>, <<65535, 65536 - WAKE_TIMEOUT_MS \div 2>>,
     <<65535, 65535>>}
WrapSteps == {Ms(WAKE_TIMEOUT_MS \div 2), Ms(WAKE_TIMEOUT_MS \div 2 + 1)}

\* the milliseconds that passed between the uint32_t counts a and b, fewer
\* than 2^16 of them: b is below a only after the count wrapped
MsBetween(a, b) ==
    IF b[1] < a[1] \/ (b[1] = a[1] /\ b[2] < a[2])
    THEN (65536 - a[1] + b[1]) * 65536 + b[2] - a[2]
    ELSE (b[1] - a[1]) * 65536 + b[2] - a[2]

WrapUptime ==
    /\ call = NoCall
    /\ \E t \in WrapStarts : AdvanceClock(t)

WrapWake ==
    /\ call.op = "advance"
    /\ sm.current_state = STATE_SLEEP
    /\ Transition(STATE_WAKE)

WrapClock ==
    /\ sm.current_state = STATE_WAKE
    /\ MsBetween(sm.state_enter_time, now) < MaxWrapMs
    /\ \E d \in WrapSteps : AdvanceClock(d)

WrapUpdate ==
    /\ sm.current_state # STATE_SLEEP
    /\ Update

NextWrap == WrapUptime \/ WrapWake \/ WrapClock \/ WrapUpdate

SpecWrap == Init /\ [][NextWrap]_vars

-----------------------------------------------------------------------------
(* SpecLive: the main loop keeps running; commands arrive outside WAKE *)

\* the loop runs while the clock is below MaxLiveTicks iterations
LiveRuns == now[1] = 0 /\ now[2] < MaxLiveTicks * (READ_WAIT_MS + TICK_DELAY_MS)

LiveTick ==
    /\ LiveRuns
    /\ Tick(<<>>)

\* a command asks for another state; none arrives while the state is WAKE,
\* and none asks for WAKE when the loop would stop before the time-out
LiveCommand ==
    /\ sm.current_state # STATE_WAKE
    /\ NumCommands < MaxLiveCommands
    /\ \E new_state \in {STATE_WAKE, STATE_TALK} :
         /\ new_state # sm.current_state
         /\ new_state = STATE_WAKE =>
              now[1] = 0 /\ now[2] + WAKE_TIMEOUT_MS
                               < MaxLiveTicks * (READ_WAIT_MS + TICK_DELAY_MS)
         /\ Transition(new_state)

NextLive == LiveTick \/ LiveCommand

\* the step of LiveTick as the call history shows it: the entry of an
\* iteration, made from the state it started in
LiveTickStep ==
    /\ LiveRuns
    /\ \E shown \in {<<>>, <<ExpressionOf(STATE_LISTEN, sm.current_expression)>>} :
         call' = Call("tick", 0, shown)

\* while (1) in app_main never ends: an iteration that can run does run
SpecLive == Init /\ [][NextLive]_vars /\ WF_call(LiveTickStep)

-----------------------------------------------------------------------------
(* Views of the history *)

IsOutcome(e) == e.type \in {"call", "no_callback", "crc_mismatch", "too_long"}
IsValidFrame(e) == e.type \in {"call", "no_callback"}
ParseEvents == SelectSeq(log, LAMBDA e : e.type # "register")
Calls == SelectSeq(log, LAMBDA e : e.type = "call")
Idle == ~rx_receiving /\ rx_index = 0

\* what a valid frame (cmd, data) ending at byte number at must produce
Delivery(cmd, data, at) ==
    IF callbacks[cmd] # NULL
    THEN CallEvent(callbacks[cmd], cmd, Len(data), data, at)
    ELSE NoCallbackEvent(cmd, Len(data), at)

\* a byte sequence as the array calc_crc8 reads
SeqImage(bytes) == [k \in 0..(Len(bytes) - 1) |-> bytes[k + 1]]

\* the parser as protocol_init leaves it, before any byte
FreshParser == Parser([i \in 0..(FRAME_SIZE - 1) |-> 0], 0, FALSE, <<>>, 0)

-----------------------------------------------------------------------------
(* Claims checked under Spec *)

\* C2: a handler is invoked only for a completed frame whose checksum,
\* computed over head, command, both length bytes and the payload handed to
\* the handler, equals the checksum byte received; no handler is invoked at a
\* byte where a checksum mismatch was found.
C2_DispatchOnlyOnChecksumMatch ==
    LET stream == Flat(fed)
    IN  \A i \in 1..Len(log) :
            /\ log[i].type = "call" =>
                  /\ log[i].cb # NULL
                  /\ log[i].cb = callbacks[log[i].cmd]
                  /\ Len(log[i].data) = log[i].len
                  /\ calc_crc8(SeqImage(Header(log[i].cmd, log[i].len) \o log[i].data),
                               4 + log[i].len) = stream[log[i].at]
            /\ log[i].type = "crc_mismatch" =>
                  \A j \in 1..Len(log) : log[j].type = "call" => log[j].at # log[i].at

C2_Witness ==
    \E i \in 1..Len(log) : log[i].type = "call" /\ log[i].len = 1

\* C5: however the byte stream is split into protocol_process_data calls, the
\* handler invocations and diagnostics and the final parser state are those
\* of one call with the whole stream.
C5_ChunkingIndependence ==
    LET whole == protocol_process_data(FreshParser, callbacks, Flat(fed))
    IN  /\ whole.frame = rx_frame
        /\ whole.index = rx_index
        /\ whole.receiving = rx_receiving
        /\ whole.out = ParseEvents

C5_Witness ==
    /\ Len(Calls) = 1 /\ Calls[1].len = 1
    /\ \E i \in 1..Len(fed) : Len(fed[i]) = 2
    /\ \E i \in 1..Len(fed) : Len(fed[i]) = 1

-----------------------------------------------------------------------------
(* Claims checked under SpecFrames *)

\* command and payload carried by the bytes of a well-formed frame
CmdOf(f) == f[2]
DataOf(f) == SubSeq(f, 5, Len(f) - 1)

HasSync(bytes) == \E k \in 1..Len(bytes) : bytes[k] = FRAME_HEAD

\* what garbage followed by the well-formed frame fed[2] must give
ResyncResult ==
    /\ ParseEvents = <<SyncEvent(Len(fed[1]) + 1),
                       Delivery(CmdOf(fed[2]), DataOf(fed[2]), Len(fed[1]) + Len(fed[2]))>>
    /\ Idle

\* C3 as stated: from an idle parser, any garbage (sync bytes included)
\* followed by one well-formed frame delivers exactly that frame.
C3_ResyncAnyGarbage ==
    (Len(fed) = 2 /\ fed[1] \in Garbage /\ fed[2] \in Frames) => ResyncResult

\* C3 amended: from an idle parser, garbage that holds no sync byte followed
\* by one well-formed frame delivers exactly that frame and nothing else.
C3_ResyncGarbageWithoutSync ==
    (Len(fed) = 2 /\ fed[1] \in Garbage /\ ~HasSync(fed[1]) /\ fed[2] \in Frames)
        => ResyncResult

C3_Witness ==
    /\ Len(fed) = 2 /\ fed[1] \in Garbage /\ ~HasSync(fed[1]) /\ Len(fed[1]) >= 2
    /\ fed[2] \in Frames /\ Len(Calls) = 1 /\ Calls[1].len = 2

\* frames whose checksum byte alone is corrupted
BadCrcFrames == UNION {{Flip(f, Len(f), k) : k \in 0..7} : f \in Frames}

\* C7: once the checksum byte of a frame is consumed the parser is idle,
\* match or not, and a well-formed frame right after a checksum-mismatched
\* frame is parsed and dispatched as usual.
C7_IdleAfterChecksumByte ==
    /\ (ParseEvents # <<>>
          /\ ParseEvents[Len(ParseEvents)].type \in {"call", "no_callback", "crc_mismatch"}
          /\ ParseEvents[Len(ParseEvents)].at = FlatLen(fed)) => Idle
    /\ (Len(fed) = 2 /\ fed[1] \in BadCrcFrames /\ fed[2] \in Frames) =>
          /\ ParseEvents =
                <<SyncEvent(1),
                  CrcMismatchEvent(CmdOf(fed[1]), Len(DataOf(fed[1])), Len(fed[1])),
                  SyncEvent(Len(fed[1]) + 1),
                  Delivery(CmdOf(fed[2]), DataOf(fed[2]), Len(fed[1]) + Len(fed[2]))>>
          /\ Idle

C7_Witness ==
    /\ Len(fed) = 2 /\ fed[1] \in BadCrcFrames /\ fed[2] \in Frames
    /\ Len(Calls) = 1 /\ Calls[1].len = 2

\* the first chunk is reported as a checksum mismatch at its last byte and
\* no handler has been invoked by then
ReportedInvalid ==
    /\ Len(ParseEvents) >= 2
    /\ ParseEvents[1] = SyncEvent(1)
    /\ ParseEvents[2].type = "crc_mismatch"
    /\ ParseEvents[2].at = Len(fed[1])

\* frames with one bit inverted in the command, the payload or the checksum
FlippedBody ==
    UNION {{Flip(f, p, k) : p \in {2} \cup 5..Len(f), k \in 0..7} : f \in Frames}

\* C8 as stated: a well-formed frame with any single bit inverted, fed to an
\* idle parser, is reported invalid and reaches no handler.
C8_AnyBitFlipReported ==
    (fed # <<>> /\ fed[1] \in Flipped) => ReportedInvalid

\* C8 amended: a well-formed frame with one bit inverted in its command, its
\* payload or its checksum byte, fed to an idle parser, is reported invalid
\* and reaches no handler.
C8_BodyBitFlipReported ==
    (fed # <<>> /\ fed[1] \in FlippedBody) => ReportedInvalid

C8_Witness ==
    /\ Len(fed) = 1 /\ fed[1] \in FlippedBody /\ Len(fed[1]) = 7
    /\ fed[1][2] = 1 /\ callbacks[1] # NULL
    /\ Len(ParseEvents) = 2 /\ ParseEvents[2].type = "crc_mismatch"

-----------------------------------------------------------------------------
(* Claims checked under SpecDispatch *)

\* the handler bound to cmd by the registrations before log[i], NULL if none
LastBinding(cmd, i) ==
    LET regs == {j \in 1..(i - 1) : log[j].type = "register" /\ log[j].cmd = cmd}
    IN  IF regs = {} THEN NULL
        ELSE log[CHOOSE j \in regs : \A k \in regs : k <= j].cb

\* how many valid frames were completed up to log[i]
ValidUpTo(i) == Cardinality({j \in 1..i : IsValidFrame(log[j])})

\* the event the well-formed frame f, ending at byte number at, must give
\* when the binding of its command is cb
ExpectedFor(f, at, cb) ==
    IF cb # NULL
    THEN CallEvent(cb, CmdOf(f), Len(DataOf(f)), DataOf(f), at)
    ELSE NoCallbackEvent(CmdOf(f), Len(DataOf(f)), at)

\* the same for the k-th chunk fed
Expected(k, cb) == ExpectedFor(fed[k], FlatLen(SubSeq(fed, 1, k)), cb)

\* C9: a valid frame with command c invokes, exactly once, the handler most
\* recently registered for c, with the frame's payload bytes and length;
\* registrations for other commands do not change which handler that is.
C9_DispatchUsesLatestBinding ==
    /\ Len(SelectSeq(log, IsValidFrame)) = Len(fed)
    /\ \A i \in 1..Len(log) :
          IsValidFrame(log[i]) =>
              log[i] = Expected(ValidUpTo(i), LastBinding(CmdOf(fed[ValidUpTo(i)]), i))

C9_Witness ==
    \E i, j, k \in 1..Len(log) :
        /\ i < j /\ j < k
        /\ log[i].type = "register" /\ log[i].cmd = 1 /\ log[i].cb = 1
        /\ log[j].type = "register" /\ log[j].cmd = 1 /\ log[j].cb = 2
        /\ log[k].type = "call" /\ log[k].cmd = 1 /\ log[k].cb = 2

\* the events a step appended to the history
NewEvents == SubSeq(log', Len(log) + 1, Len(log'))

\* C10: a valid frame whose command has no bound handler invokes no handler,
\* is reported once and not retried, leaves the behaviour controller, the
\* display and the outbound queue as they were and the parser idle, and the
\* frames fed before and after it give their own events.
C10_UnboundFrameDiscarded ==
    /\ [][(\E i \in 1..Len(NewEvents) : NewEvents[i].type = "no_callback") =>
            /\ NewEvents = <<SyncEvent(FlatLen(fed) + 1),
                             ExpectedFor(fed'[Len(fed')], FlatLen(fed'), NULL)>>
            /\ sm' = sm /\ display' = display /\ now' = now
            /\ tx_queue' = tx_queue /\ uart_tx' = uart_tx /\ requests' = requests
            /\ callbacks' = callbacks
            /\ Idle']_vars
    /\ [](Len(ParseEvents) = 2 * Len(fed) /\ Idle)

C10_Witness ==
    /\ tx_queue # <<>> /\ sm.current_state = STATE_TALK
    /\ \E i, j \in 1..Len(log) :
          i < j /\ log[i].type = "no_callback" /\ log[j].type = "call"

-----------------------------------------------------------------------------
(* Claims checked under SpecLong *)

\* C6: every frame attempt, from a sync byte seen while idle to the return to
\* idle, has exactly one outcome (valid frame, checksum mismatch or defensive
\* reset), and attempts do not overlap: a byte belongs to at most one.
C6_OneOutcomePerAttempt ==
    LET ev == SelectSeq(log, LAMBDA e : e.type = "sync" \/ IsOutcome(e))
    IN  /\ \A i \in 1..Len(ev) :
               IF i % 2 = 1 THEN ev[i].type = "sync" ELSE IsOutcome(ev[i])
        /\ \A i \in 1..(Len(ev) - 1) : ev[i].at < ev[i + 1].at
        /\ rx_receiving <=> (Len(ev) % 2 = 1)
        /\ ~rx_receiving => rx_index = 0

C6_Witness ==
    /\ \E i \in 1..Len(log) : log[i].type = "too_long"
    /\ rx_receiving


\* C1: a frame built by protocol_send_response from any command and any
\* payload of 0..MAX_DATA_LEN bytes, written by protocol_send_queued and fed to
\* an idle parser, completes exactly one frame with the same command, length
\* and payload and a matching checksum, and the bound handler gets that payload.
C1_RoundTrip ==
    (Len(requests) = 1 /\ Len(fed) = 1) =>
        LET r == requests[1]
            n == Len(r.data)
        IN  /\ uart_tx = <<fed[1]>>
            /\ Len(fed[1]) = 5 + n
            /\ ParseEvents = <<SyncEvent(1), Delivery(r.cmd, r.data, 5 + n)>>
            /\ Idle

C1_Witness ==
    /\ Len(requests) = 1 /\ Len(fed) = 1
    /\ Len(requests[1].data) = MAX_DATA_LEN
    /\ requests[1].data[1] = FRAME_HEAD
    /\ Len(Calls) = 1 /\ Calls[1].data = requests[1].data

\* C4: an inbound frame whose length field claims more than MAX_DATA_LEN
\* bytes is never completed (no checksum is evaluated for it) and never
\* dispatched.
C4_OversizeNeverCompleted ==
    \A i \in 1..Len(log) :
        log[i].type \in {"call", "no_callback", "crc_mismatch"} => log[i].len <= MAX_DATA_LEN

\* the dispatch half of C4 alone
C4_OversizeNeverDispatched ==
    \A i \in 1..Len(log) : log[i].type = "call" => log[i].len <= MAX_DATA_LEN


-----------------------------------------------------------------------------
(* Claims checked under SpecStream *)

\* the call event e is that of the frame whose checksum byte is byte number
\* e.at of the stream, with the payload as it arrived (a payload that fits
\* the frame buffer)
CallOfFrameEndingAt(e, stream) ==
    LET start == e.at - e.len - 4
    IN  /\ start >= 1 /\ e.at <= Len(stream)
        /\ stream[start] = FRAME_HEAD
        /\ stream[start + 1] = e.cmd
        /\ stream[start + 2] + 256 * stream[start + 3] = e.len
        /\ e.len <= MAX_DATA_LEN =>
             /\ e.data = SubSeq(stream, start + 4, e.at - 1)
             /\ stream[e.at] = calc_crc8(SeqImage(SubSeq(stream, start, e.at - 1)), 4 + e.len)

\* C11: each handler runs when the checksum byte of its frame has been
\* consumed and before any later byte is, so handlers run in the order of the
\* checksum bytes in the stream and each sees the payload of its own frame
C11_DispatchSynchronousOrdered ==
    /\ \A i \in 1..Len(Calls) : CallOfFrameEndingAt(Calls[i], Flat(fed))
    /\ \A i \in 1..(Len(Calls) - 1) : Calls[i].at < Calls[i + 1].at
    /\ \A i \in 1..(Len(log) - 1) : log[i].at <= log[i + 1].at

C11_Witness ==
    /\ Len(fed) = 1
    /\ Len(Calls) = 2
    /\ Calls[1].data # Calls[2].data

-----------------------------------------------------------------------------
(* Claims checked under SpecQueue *)

\* the requests whose frame was put in the queue
Accepted == SelectSeq(requests, LAMBDA r : r.queued)

\* head, command, length low byte, length high byte, payload, checksum
OnWire(r) ==
    LET body == <<FRAME_HEAD, r.cmd, Len(r.data) % 256, Len(r.data) \div 256>> \o r.data
    IN  body \o <<calc_crc8(SeqImage(body), Len(body))>>

\* C12: a send against a full queue gives its caller a rejection and a send
\* with room gives it success, so the result of a call tells a dropped frame
\* from an accepted one
C12_EnqueueReportsOutcome ==
    \A i \in 1..Len(requests) : \A j \in 1..Len(requests) :
        requests[i].queued # requests[j].queued => requests[i].result # requests[j].result

\* C13: a send against a full queue leaves the queue as it was (contents and
\* order; the new frame is the one dropped) and does not hold its caller
C13_SaturationDropsNewestUnblocked ==
    (call.op = "send" /\ Len(call.queue) = QUEUE_LENGTH)
        => (tx_queue = call.queue /\ now = call.now)

\* the part of C13 about the queue alone
C13_SaturationKeepsQueue ==
    (call.op = "send" /\ Len(call.queue) = QUEUE_LENGTH) => tx_queue = call.queue

\* C14: a drain writes every queued frame once, oldest first, each as head,
\* command, length low, length high, payload, checksum, and empties the queue;
\* at any time what was written followed by what is queued is the accepted
\* frames in the order of their requests
C14_DrainFifoComplete ==
    /\ Len(uart_tx) + Len(tx_queue) = Len(Accepted)
    /\ \A k \in 1..Len(uart_tx) : uart_tx[k] = OnWire(Accepted[k])
    /\ \A k \in 1..Len(tx_queue) :
         Serialize(tx_queue[k]) = OnWire(Accepted[Len(uart_tx) + k])
    /\ call.op = "drain" =>
         /\ tx_queue = <<>>
         /\ Len(uart_tx) = call.written + Len(call.queue)
         /\ \A k \in 1..Len(call.queue) :
              uart_tx[call.written + k] = Serialize(call.queue[k])

C14_Witness ==
    /\ call.op = "drain"
    /\ Len(call.queue) = QUEUE_LENGTH
    /\ call.written > 0
    /\ Len(Accepted) < Len(requests)

-----------------------------------------------------------------------------
(* Claims checked under SpecController and SpecTimer *)

\* nothing of the controller, the display or the transmit side differs from
\* what the last call started from
Untouched ==
    /\ sm = call.sm
    /\ display = call.display
    /\ call.shown = <<>>
    /\ tx_queue = call.queue
    /\ Len(requests) = call.sent
    /\ Len(uart_tx) = call.written

SelfTransition == call.op = "transition" /\ call.arg = call.sm.current_state

\* C15: state_machine_transition(S) with current_state = S changes no field
\* of the controller, does not call the display and queues no status frame
C15_SelfTransitionNoEffect == SelfTransition => Untouched

C15_Witness ==
    /\ SelfTransition
    /\ call.arg = STATE_WAKE
    /\ call.queue # <<>>

\* the time since state entry that the last call found
ElapsedAtCall == Elapsed(call.sm, call.now)

UpdateInWake ==
    call.op = "update" /\ call.sm.running /\ call.sm.current_state = STATE_WAKE

\* C17 as stated: in WAKE and running, an update evaluated once 2000 ms have
\* elapsed since state entry goes to LISTEN, and one evaluated before does not
\* change the state
C17_ExitOnceThresholdElapsed ==
    UpdateInWake =>
        IF U32Gt(ElapsedAtCall, WAKE_TIMEOUT_MS - 1)
        THEN sm.current_state = STATE_LISTEN
        ELSE sm.current_state = STATE_WAKE

\* C17: in WAKE and running, an update evaluated when more than 2000 ms have
\* elapsed since state entry goes to LISTEN, and one evaluated at 2000 ms or
\* before changes nothing
C17_ExitAfterThresholdExceeded ==
    UpdateInWake =>
        IF U32Gt(ElapsedAtCall, WAKE_TIMEOUT_MS)
        THEN sm.current_state = STATE_LISTEN /\ sm.previous_state = STATE_WAKE
        ELSE Untouched

C17_Witness ==
    /\ UpdateInWake
    /\ ElapsedAtCall = Ms(WAKE_TIMEOUT_MS + 1)
    /\ sm.current_state = STATE_LISTEN

\* C18: in SLEEP, LISTEN, THINK and TALK an update changes nothing whatever
\* the elapsed time, and the only change an update ever makes is WAKE to LISTEN
C18_OnlyWakeTimesOut ==
    /\ (call.op = "update"
          /\ call.sm.current_state \in {STATE_SLEEP, STATE_LISTEN, STATE_THINK, STATE_TALK})
         => Untouched
    /\ (call.op = "update" /\ ~Untouched)
         => (call.sm.current_state = STATE_WAKE /\ sm.current_state = STATE_LISTEN)

C18_Witness ==
    /\ call.op = "update"
    /\ call.sm.running
    /\ call.sm.current_state = STATE_TALK
    /\ U32Gt(ElapsedAtCall, WAKE_TIMEOUT_MS)

\* C19: an update while not running (before state_machine_start, after
\* state_machine_stop) changes nothing, even in WAKE with more than 2000 ms
\* elapsed; state_machine_start sets running and restarts the timer at the
\* time of the call
C19_RuleOnlyWhileRunning ==
    /\ (call.op = "update" /\ ~call.sm.running) => Untouched
    /\ call.op = "start" =>
         /\ sm = [call.sm EXCEPT !.running = TRUE, !.state_enter_time = call.now]
         /\ Elapsed(sm, now) = Ms(0)

C19_Witness ==
    /\ call.op = "update"
    /\ ~call.sm.running
    /\ call.sm.current_state = STATE_WAKE
    /\ U32Gt(ElapsedAtCall, WAKE_TIMEOUT_MS)

\* C20: a transition request naming a value outside the enumeration changes
\* neither current_state, previous_state, state_enter_time nor the expression,
\* and queues no status frame
C20_InvalidTransitionRejected ==
    (call.op = "transition" /\ call.arg \notin STATE_IDLE..STATE_TALK)
        => /\ sm.current_state = call.sm.current_state
           /\ sm.previous_state = call.sm.previous_state
           /\ sm.state_enter_time = call.sm.state_enter_time
           /\ sm.current_expression = call.sm.current_expression
           /\ tx_queue = call.queue
           /\ Len(requests) = call.sent

-----------------------------------------------------------------------------
(* Claims checked under SpecStatus *)

RealStates == {STATE_SLEEP, STATE_WAKE, STATE_LISTEN, STATE_THINK, STATE_TALK}

\* the documented expression id of each real state
DocumentedExpression ==
    (STATE_SLEEP :> 0) @@ (STATE_WAKE :> 1) @@ (STATE_LISTEN :> 2)
        @@ (STATE_THINK :> 3) @@ (STATE_TALK :> 4)

EnteredReal ==
    call.op = "transition" /\ call.arg \in RealStates /\ call.arg # call.sm.current_state

\* the fields and the display after a transition into call.arg
FieldsSet ==
    /\ sm = [call.sm EXCEPT !.previous_state = call.sm.current_state,
                            !.current_state = call.arg,
                            !.state_enter_time = call.now,
                            !.current_expression = DocumentedExpression[call.arg]]
    /\ display = DocumentedExpression[call.arg]
    /\ call.shown = <<DocumentedExpression[call.arg]>>

\* one frame more in the queue, behind the others, with the state and the
\* expression in its payload
OneStatusFrame ==
    /\ Len(tx_queue) = Len(call.queue) + 1
    /\ SubSeq(tx_queue, 1, Len(call.queue)) = call.queue
    /\ LET f == tx_queue[Len(tx_queue)]
       IN  /\ f.cmd = CMD_SET_STATE
           /\ f.data[1] = call.arg
           /\ f.data[3] = DocumentedExpression[call.arg]

\* C16 as stated: a transition into a real state S from another state sets
\* the fields, shows the mapped expression and puts exactly one status frame
\* with that state and expression in the queue
C16_TransitionQueuesStatus == EnteredReal => (FieldsSet /\ OneStatusFrame)

\* C16: the same, the status frame being queued when the queue has room and
\* dropped when it is full
C16_TransitionQueuesStatusIfRoom ==
    EnteredReal =>
        /\ FieldsSet
        /\ IF Len(call.queue) < QUEUE_LENGTH THEN OneStatusFrame ELSE tx_queue = call.queue

C16_Witness ==
    /\ EnteredReal
    /\ call.sm.current_state = STATE_TALK
    /\ call.arg = STATE_SLEEP
    /\ Len(tx_queue) = 2

-----------------------------------------------------------------------------
(* More claims checked under SpecController *)

\* C21: current_state is one of SLEEP, WAKE, LISTEN, THINK, TALK in every
\* state reached by transition requests and ticks; IDLE is never entered
C21_StateAlwaysReal == sm.current_state \in RealStates

\* C30: current_expression is the documented expression of current_state and
\* the display shows current_expression, in every reachable state
C30_ExpressionFollowsState ==
    /\ sm.current_state \in RealStates
    /\ sm.current_expression = DocumentedExpression[sm.current_state]
    /\ display = sm.current_expression

\* the part of C30 that holds while current_state is a real state
C30_ExpressionFollowsRealState ==
    /\ sm.current_state \in RealStates =>
         sm.current_expression = DocumentedExpression[sm.current_state]
    /\ display = sm.current_expression

-----------------------------------------------------------------------------
(* Claims checked under SpecBattery *)

\* the requests made by the last call
NewRequests ==
    IF call.op = "none" THEN <<>> ELSE SubSeq(requests, call.sent + 1, Len(requests))

\* C22: state_machine_set_battery_level(v) stores v and changes nothing else
\* (no other field, no display call, no frame), no other call changes the
\* level, and the status frame of a transition carries the stored level
C22_BatteryOnlyStoredAndReported ==
    /\ call.op = "set_battery" =>
         /\ sm = [call.sm EXCEPT !.battery_level = call.arg]
         /\ display = call.display /\ call.shown = <<>>
         /\ tx_queue = call.queue /\ Len(requests) = call.sent
         /\ now = call.now
    /\ call.op \in {"transition", "update", "start", "stop", "advance"} =>
         sm.battery_level = call.sm.battery_level
    /\ \A i \in 1..Len(NewRequests) :
         NewRequests[i].cmd = CMD_SET_STATE =>
             NewRequests[i].data[2] = call.sm.battery_level

C22_Witness ==
    /\ call.op = "update"
    /\ Len(NewRequests) = 1
    /\ NewRequests[1].data[2] = 37
    /\ Len(requests) = 2
    /\ requests[1].data[2] = 100

\* C23: battery_level is within 0..100 in every reachable state, whatever
\* 8-bit value state_machine_set_battery_level is given
C23_BatteryWithinRange == sm.battery_level \in 0..100


-----------------------------------------------------------------------------
(* Claims checked under SpecProducers *)

\* the requests that carry a status payload: those of state_machine_transition
\* and those of protocol_send_status
StatusRequests ==
    SelectSeq(requests, LAMBDA r : r.cmd \in {CMD_SET_STATE, CMD_GET_STATUS})

\* C25: every status payload is state, battery, expression, servo_h low, high,
\* servo_v low, high: seven bytes, the length of the frame, and two status
\* payloads with the same seven values are the same payload
C25_StatusPayloadLayout ==
    /\ \A i \in 1..Len(StatusRequests) : Len(StatusRequests[i].data) = 7
    /\ \A i \in 1..Len(StatusRequests) : \A j \in 1..Len(StatusRequests) :
         SubSeq(StatusRequests[i].data, 1, 7) = SubSeq(StatusRequests[j].data, 1, 7)
             => StatusRequests[i].data = StatusRequests[j].data

\* C27: the queue never holds more than QUEUE_LENGTH frames, whoever
\* enqueues and however many enqueues come between two drains
C27_QueueWithinCapacity == Len(tx_queue) <= QUEUE_LENGTH

C27_Witness ==
    /\ Len(tx_queue) = QUEUE_LENGTH
    /\ Len(SelectSeq(requests, LAMBDA r : ~r.queued)) >= 2
    /\ \E i \in 1..Len(requests) : ~requests[i].queued /\ requests[i].by = "transition"


-----------------------------------------------------------------------------
(* Claims checked under SpecWire *)

\* C24: after startup, a valid set-state frame whose first payload byte names
\* a state S other than the current one leaves current_state = S, the
\* expression mapped to S on the display, and a status frame with state S
\* enqueued
C24_SetStateOverWire ==
    (Len(fed) = 1 /\ fed[1][5] # STATE_SLEEP) =>
        /\ sm.current_state = fed[1][5]
        /\ display = DocumentedExpression[fed[1][5]]
        /\ \E i \in 1..Len(requests) :
             /\ requests[i].queued
             /\ requests[i].data[1] = fed[1][5]


-----------------------------------------------------------------------------
(* Claims checked under SpecLong: the bounds of the payload buffer *)

\* C29: the parser stores payload bytes at offsets 0..MAX_DATA_LEN - 1 of
\* rx_frame.data only, so the byte behind the crc field is never written,
\* and no checksum is computed over more than 4 + MAX_DATA_LEN bytes
C29_PayloadWritesInBounds ==
    /\ rx_frame[OFF_CRC + 1] = 0
    /\ \A i \in 1..Len(log) :
         log[i].type \in {"call", "no_callback", "crc_mismatch"} => log[i].len <= MAX_DATA_LEN


-----------------------------------------------------------------------------
(* Claims checked under SpecBound *)

\* the sync events of the log
Syncs == SelectSeq(log, LAMBDA e : e.type = "sync")

-----------------------------------------------------------------------------
(* Claims checked under SpecTick *)

\* the frames of the requests of the last call that were made by `by` and
\* found room in the queue
FramesBy(by) ==
    LET rs == SelectSeq(NewRequests, LAMBDA r : r.by = by /\ r.queued)
    IN  [i \in 1..Len(rs) |-> BuildFrame(rs[i].cmd, rs[i].data)]

\* C26: an iteration of the main loop feeds and dispatches, then drains, then
\* evaluates the time-driven rule: what it writes to the wire is the queue it
\* found followed by the frames its handlers enqueued, and the status frame of
\* its WAKE to LISTEN transition is left in the queue, for a later drain
C26_TickOrder ==
    call.op = "tick" =>
        /\ uart_tx = SubSeq(uart_tx, 1, call.written)
                        \o SerializeAll(call.queue \o FramesBy("handler"))
        /\ tx_queue = FramesBy("update")
        /\ \A i \in 1..Len(NewRequests) : \A j \in 1..Len(NewRequests) :
             (NewRequests[i].by = "handler" /\ NewRequests[j].by = "update") => i < j
        /\ \A i \in 1..Len(NewRequests) : NewRequests[i].by \in {"handler", "update"}

\* an iteration in which a handler answered and the WAKE state timed out, after
\* which the answer is on the wire and the status frame is not
C26_Witness ==
    /\ call.op = "tick"
    /\ Len(FramesBy("handler")) = 2
    /\ Len(FramesBy("update")) = 1
    /\ call.sm.current_state = STATE_WAKE
    /\ sm.current_state = STATE_LISTEN
    /\ Len(tx_queue) = 1 /\ tx_queue[1].cmd = CMD_SET_STATE
    /\ uart_tx[Len(uart_tx)] = WireFrame(1, <<FRAME_HEAD>>)

\* the iteration after the time-out writes the status frame
C26_WitnessNextTick ==
    /\ call.op = "tick"
    /\ Len(call.queue) = 1 /\ call.queue[1].cmd = CMD_SET_STATE
    /\ call.queue[1].data[1] = STATE_LISTEN
    /\ uart_tx[Len(uart_tx)] = Serialize(call.queue[1])
    /\ tx_queue = <<>>


-----------------------------------------------------------------------------
(* Claims checked under SpecWrap *)

\* the count had wrapped since state entry when the last call was made
WrappedAtCall ==
    \/ call.now[1] < call.sm.state_enter_time[1]
    \/ (call.now[1] = call.sm.state_enter_time[1] /\ call.now[2] < call.sm.state_enter_time[2])

\* C32: the elapsed time state_machine_update computes is the time that
\* passed since state entry, also when the millisecond count wrapped in
\* between: in WAKE the update goes to LISTEN when more than 2000 ms passed
\* and changes nothing when 2000 ms or less passed
C32_TimeoutAcrossWrap ==
    /\ sm.current_state # STATE_SLEEP =>
         Elapsed(sm, now) = Ms(MsBetween(sm.state_enter_time, now))
    /\ UpdateInWake =>
         /\ ElapsedAtCall = Ms(MsBetween(call.sm.state_enter_time, call.now))
         /\ IF MsBetween(call.sm.state_enter_time, call.now) > WAKE_TIMEOUT_MS
            THEN /\ sm.current_state = STATE_LISTEN
                 /\ sm.state_enter_time = call.now
            ELSE Untouched

\* the timeout fires at 2001 ms, the count having wrapped since state entry
C32_Witness ==
    /\ UpdateInWake
    /\ WrappedAtCall
    /\ MsBetween(call.sm.state_enter_time, call.now) = WAKE_TIMEOUT_MS + 1
    /\ sm.current_state = STATE_LISTEN

\* an update at 2000 ms, the count having wrapped, leaves WAKE
C32_WitnessBefore ==
    /\ UpdateInWake
    /\ WrappedAtCall
    /\ MsBetween(call.sm.state_enter_time, call.now) = WAKE_TIMEOUT_MS
    /\ sm.current_state = STATE_WAKE


-----------------------------------------------------------------------------
(* Claims checked under SpecLive *)

\* the state_machine_transition calls that entered WAKE
WakeEntries ==
    SelectSeq(requests, LAMBDA r : r.by = "transition" /\ r.data[1] = STATE_WAKE)

\* the transitions made by state_machine_update
TimeOuts == SelectSeq(requests, LAMBDA r : r.by = "update")

\* every WAKE that has ended was ended by one time-driven transition, to
\* LISTEN, and an iteration of the loop that starts in LISTEN changes nothing
\* of the controller
OneTimeOutPerWake ==
    /\ Len(TimeOuts) = Len(WakeEntries) - (IF sm.current_state = STATE_WAKE THEN 1 ELSE 0)
    /\ \A i \in 1..Len(TimeOuts) : TimeOuts[i].data[1] = STATE_LISTEN
    /\ (call.op = "tick" /\ call.sm.current_state = STATE_LISTEN) =>
          /\ sm = call.sm
          /\ Len(requests) = call.sent

\* C31: running and in WAKE, with the loop running and no transition
\* requested, the controller reaches LISTEN; one WAKE to LISTEN transition is
\* made for each WAKE, and the controller stays in LISTEN until a command comes
C31_WakeTimeoutLive ==
    /\ (sm.running /\ sm.current_state = STATE_WAKE) ~> (sm.current_state = STATE_LISTEN)
    /\ []OneTimeOutPerWake

\* LISTEN was reached from WAKE by the time-out, and the loop ran on in LISTEN
C31_Witness ==
    /\ call.op = "tick"
    /\ call.sm.current_state = STATE_LISTEN
    /\ call.sm.previous_state = STATE_WAKE
    /\ sm.current_state = STATE_LISTEN
    /\ Len(TimeOuts) = 1 /\ Len(WakeEntries) = 1
    /\ U32Gt(sm.state_enter_time, WAKE_TIMEOUT_MS)

=============================================================================
